---- MODULE Spec2Model ----
(***************************************************************************)
(* Model of the system-design-interview workflow:                          *)
(*   - the node functions of workflow_definitions/system_design/functions.py*)
(*     as operators (determine_next_state, verify_hypotheses, summarize,    *)
(*     save_results), computed as the Python code computes them;            *)
(*   - one interview session driven through the node graph by the workflow  *)
(*     runtime (suspend at the human-interaction nodes, resume with a value).*)
(*                                                                          *)
(* Python values: a str and a list are both sequences (a str is a sequence  *)
(* of text tokens), a dict is a record, a raised exception is a record with *)
(* raised = TRUE.  None is the value None where a str is expected and the   *)
(* value NoRecords where a list of dicts is expected.                       *)
(***************************************************************************)
EXTENDS Integers, Sequences, FiniteSets, TLC

VARIABLES
    \* ---- one direct call of a node function (specification FnSpec)
    call,               \* the function called and its keyword arguments
    ret,                \* Pending, or what the call returned
    \* ---- one workflow session (specification Spec)
    status,             \* "new", "running", "suspended", "finished", "failed"
    pc,                 \* the node that runs next, or the node suspended at
    cycle,              \* number of GenerateHypotheses executions so far
    initial,            \* the initial_question of the first invoke
    current_question,   \* DetermineNextState.next_question of the last cycle
    gh_question,        \* the question the last generate_hypotheses worked on
    hypotheses,         \* GenerateHypotheses.hypotheses
    questions,          \* GenerateHypotheses.verification_questions
    answers,            \* resume value of AskUserVerification
    verification,       \* the dict returned by verify_hypotheses
    solution,           \* GenerateSolution.solution
    final_solution,     \* CriticReview.final_solution
    retry_input,        \* resume value of AskUserRetry
    next_action,        \* resume value of AskUserNextSteps: next_action
    next_input,         \* resume value of AskUserNextSteps: new_input
    should_stop,        \* DetermineNextState.should_stop
    history,            \* the accumulated hypotheses_history
    report,             \* terminal state, key "SaveResults.report"
    failure,            \* the exception that ended the invoke, or None
    \* ---- observers (not program state)
    ran,                \* nodes executed since the last GenerateHypotheses
    last_resume,        \* interaction point and value of the last resume
    verdict_total,      \* sum of the verdict counts of the cycles verified
    \* ---- calculate_metrics run by concurrent sessions (specification ToolSpec)
    sys_stdout,         \* the process-wide sys.stdout: the stream print writes to
    console,            \* what has been written to the process's real stdout
    tpc,                \* per session: where its calculate_metrics call stands
    script,             \* per session: the script its call was given
    rest,               \* per session: the statements exec has not run yet
    old_stdout,         \* per session: the local old_stdout
    buffer,             \* per session: the contents of its StringIO
    result,             \* per session: what the call returned or raised
    \* ---- the evaluation harness driving a session (specification EvalSpec)
    eval_state,         \* "off", "running", "crashed" or "done"
    eval_trace,         \* the calls run_evaluation_loop has made for the task
    final_report,       \* the text handed to score_report, or None
    \* ---- the Streamlit page (specification UISpec)
    workflow_status,    \* st.session_state.workflow_status
    thread_id,          \* st.session_state.thread_id: a uuid4, numbered as drawn
    uuids,              \* how many uuid4 values have been drawn
    resume_value,       \* st.session_state.resume_value, the form that stored it
    request,            \* the interrupt request the session is suspended with
    checkpoints,        \* the threads the app's MemorySaver holds state of
    invocation          \* observer: the last app.invoke the page made

fnVars == <<call, ret>>
wfVars == <<status, pc, cycle, initial, current_question, gh_question,
            hypotheses, questions, answers, verification, solution,
            final_solution, retry_input, next_action, next_input, should_stop,
            history, report, failure, ran, last_resume, verdict_total>>
toolVars == <<sys_stdout, console, tpc, script, rest, old_stdout, buffer, result>>
evalVars == <<eval_state, eval_trace, final_report>>
uiVars == <<workflow_status, thread_id, uuids, resume_value, request,
            checkpoints, invocation>>
vars == <<fnVars, wfVars, toolVars, evalVars, uiVars>>

-----------------------------------------------------------------------------
(* Bounds of the model *)

\* longest text drawn for a free-text argument of a direct call
MaxLen == 2
\* longest list of per-hypothesis verdicts drawn for a direct call
MaxVerdicts == 2
\* longest script, in statements, handed to calculate_metrics
MaxScript == 2
\* number of cycles a session is followed for
MaxCycles == 2

\* invokes made by the page, and uuid4 values it draws
MaxInvokes == 4
MaxThreads == 2

-----------------------------------------------------------------------------
(* Python values *)

\* Python's None where an Optional[str] is expected; no text contains this token
None == <<"<None>">>

\* Python's None where an Optional[List[dict]] is expected
NoRecords == <<[none |-> TRUE]>>

\* the text tokens free text is drawn from
Alphabet == {"a", "b"}

\* all sequences over S of length at most n
SeqUpTo(S, n) == UNION {[1..k -> S] : k \in 0..n}

\* bool(x) for an Optional[str]
Truthy(x) == x # None /\ x # <<>>

\* bool(x) for a list
NonEmpty(x) == x # <<>>

\* bool(x) for an Optional[List[dict]]
TruthyRecords(x) == x # NoRecords /\ x # <<>>

\* str(x) as an f-string renders it: None is rendered as the text "None"
PyStr(x) == IF x = None THEN <<"None">> ELSE x

\* "x or y"
PyOr(x, y) == IF Truthy(x) THEN x ELSE y

\* whether text s occurs in text t as a contiguous part
Embeds(t, s) ==
    \E i \in 0..(Len(t) - Len(s)) : SubSeq(t, i + 1, i + Len(s)) = s

\* sep.join(parts), parts a list of texts
RECURSIVE Join(_, _)
Join(parts, sep) ==
    IF parts = <<>> THEN <<>>
    ELSE IF Len(parts) = 1 THEN parts[1]
    ELSE parts[1] \o sep \o Join(Tail(parts), sep)

\* dict.get(key), None when the key is absent
Get(d, key) == IF key \in DOMAIN d THEN d[key] ELSE None

\* dict.get(key, default)
GetOr(d, key, default) == IF key \in DOMAIN d THEN d[key] ELSE default

\* whether d.get(key) is true, for a key that holds a bool
Flag(d, key) == key \in DOMAIN d /\ d[key] = TRUE

\* the smaller of two lengths, as zip stops
Min(a, b) == IF a <= b THEN a ELSE b

\* values of next_action
ActStop == <<"stop">>
ActLoop == <<"loop">>
ActContinue == <<"continue">>

-----------------------------------------------------------------------------
(* determine_next_state *)

RetryPrefix == <<"Previous hypotheses were invalid. Reason: ">>
RetrySuffix == <<". Please try again considering this.">>

\* faulty variant: the stop request is honoured before validity is looked at
determine_next_state_StopFirst(verification_reason, nxt_input, nxt_action, is_valid) ==
    IF nxt_action = ActStop
    THEN [should_stop |-> TRUE, next_question |-> <<>>]
    ELSE IF ~is_valid
    THEN [should_stop |-> FALSE,
          next_question |-> RetryPrefix \o PyStr(verification_reason) \o RetrySuffix]
    ELSE [should_stop |-> FALSE, next_question |-> PyOr(nxt_input, <<>>)]

\* faulty variant: the comparison with "stop" is lost for an absent new_input
determine_next_state_StopNeedsInput(verification_reason, nxt_input, nxt_action, is_valid) ==
    IF ~is_valid
    THEN [should_stop |-> FALSE,
          next_question |-> RetryPrefix \o PyStr(verification_reason) \o RetrySuffix]
    ELSE IF nxt_action = ActStop /\ nxt_input # None
    THEN [should_stop |-> TRUE, next_question |-> <<>>]
    ELSE [should_stop |-> FALSE, next_question |-> PyOr(nxt_input, <<>>)]

\* faulty variant: any action other than "loop" stops
determine_next_state_NotLoopStops(verification_reason, nxt_input, nxt_action, is_valid) ==
    IF ~is_valid
    THEN [should_stop |-> FALSE,
          next_question |-> RetryPrefix \o PyStr(verification_reason) \o RetrySuffix]
    ELSE IF nxt_action # ActLoop
    THEN [should_stop |-> TRUE, next_question |-> <<>>]
    ELSE [should_stop |-> FALSE, next_question |-> PyOr(nxt_input, <<>>)]

\* faulty variant: "stop" is compared with a different spelling and never matches
determine_next_state_NeverStops(verification_reason, nxt_input, nxt_action, is_valid) ==
    IF ~is_valid
    THEN [should_stop |-> FALSE,
          next_question |-> RetryPrefix \o PyStr(verification_reason) \o RetrySuffix]
    ELSE [should_stop |-> FALSE, next_question |-> PyOr(nxt_input, <<>>)]

\* faulty variant: an invalid cycle stops when no next input was given
determine_next_state_InvalidStops(verification_reason, nxt_input, nxt_action, is_valid) ==
    IF ~is_valid
    THEN [should_stop |-> ~Truthy(nxt_input),
          next_question |-> RetryPrefix \o PyStr(verification_reason) \o RetrySuffix]
    ELSE IF nxt_action = ActStop
    THEN [should_stop |-> TRUE, next_question |-> <<>>]
    ELSE [should_stop |-> FALSE, next_question |-> PyOr(nxt_input, <<>>)]

determine_next_state(verification_reason, nxt_input, nxt_action, is_valid) ==
    IF ~is_valid
    THEN [should_stop |-> FALSE,
          next_question |-> RetryPrefix \o PyStr(verification_reason) \o RetrySuffix]
    ELSE IF nxt_action = ActStop
    THEN [should_stop |-> TRUE, next_question |-> <<>>]
    ELSE [should_stop |-> FALSE, next_question |-> PyOr(nxt_input, <<>>)]

-----------------------------------------------------------------------------
(* verify_hypotheses: what it computes from the structured response *)

\* a HypothesisVerification
Verdict(h, valid, reason, best) ==
    [hypothesis |-> h, is_valid |-> valid, reason |-> reason, is_best |-> best]

\* faulty variant: valid only when every verdict is
AnyValid_All(feedback) == \A i \in 1..Len(feedback) : feedback[i].is_valid

\* any(h.is_valid for h in feedback)
AnyValid(feedback) == \E i \in 1..Len(feedback) : feedback[i].is_valid

\* next((h.hypothesis for h in feedback if h.is_best), "")
FirstBest(feedback) ==
    LET idx == {i \in 1..Len(feedback) : feedback[i].is_best}
    IN  IF idx = {} THEN <<>>
        ELSE feedback[CHOOSE i \in idx : \A j \in idx : i <= j].hypothesis

\* faulty variant: the fallback takes the last valid verdict
FirstValid_Last(feedback) ==
    LET idx == {i \in 1..Len(feedback) : feedback[i].is_valid}
    IN  IF idx = {} THEN <<>>
        ELSE feedback[CHOOSE i \in idx : \A j \in idx : i >= j].hypothesis

\* next((h.hypothesis for h in feedback if h.is_valid), "")
FirstValid(feedback) ==
    LET idx == {i \in 1..Len(feedback) : feedback[i].is_valid}
    IN  IF idx = {} THEN <<>>
        ELSE feedback[CHOOSE i \in idx : \A j \in idx : i <= j].hypothesis

\* faulty variant: an empty reason counts as a reason
HasReason_NotNone(h) == h.reason # None

\* "if h.reason"
HasReason(h) == Truthy(h.reason)

NoValidHypotheses == <<"No valid hypotheses found.">>

\* "; ".join(f"{h.hypothesis}: {h.reason}" for h in feedback if h.reason)
JoinedReasons(feedback) ==
    LET kept == SelectSeq(feedback, HasReason)
        texts == [i \in 1..Len(kept) |->
                     PyStr(kept[i].hypothesis) \o <<": ">> \o PyStr(kept[i].reason)]
    IN  Join(texts, <<"; ">>)

verify_hypotheses(response) ==
    LET feedback == response.hypotheses_feedback
        is_valid_global == AnyValid(feedback)
        flagged == FirstBest(feedback)
        best_h == IF ~Truthy(flagged) /\ is_valid_global
                  THEN FirstValid(feedback) ELSE flagged
        global_reason == IF ~is_valid_global
                         THEN PyOr(JoinedReasons(feedback), NoValidHypotheses)
                         ELSE <<>>
    IN  [is_valid |-> is_valid_global,
         best_hypothesis |-> best_h,
         solution_draft |-> PyOr(response.solution_draft, <<>>),
         verification_reason |-> global_reason,
         verification_details |-> feedback]

-----------------------------------------------------------------------------
(* summarize *)

\* a call that ended by raising
Raised(exception) == [raised |-> TRUE, exception |-> exception]

\* the record built for one item of verification_details
\* faulty variant: every record of the cycle is given the solution
CycleRecord_AllSolved(item, initial_query, current_q_text, qs, ans, sol) ==
    [initial_query |-> initial_query,
     current_question |-> current_q_text,
     hypothesis |-> item.hypothesis,
     verification_questions |-> qs,
     verification_answers |-> ans,
     is_the_best_hypothesis |-> item.is_best,
     is_valid |-> item.is_valid,
     why_not_valid |-> item.reason,
     solution |-> sol]

\* the record summarize builds for one verdict
CycleRecord(item, initial_query, current_q_text, qs, ans, sol) ==
    LET base == [initial_query |-> initial_query,
                 current_question |-> current_q_text,
                 hypothesis |-> item.hypothesis,
                 verification_questions |-> qs,
                 verification_answers |-> ans,
                 is_the_best_hypothesis |-> item.is_best,
                 is_valid |-> item.is_valid,
                 why_not_valid |-> item.reason]
    IN  IF item.is_best /\ Truthy(sol)
        THEN [k \in DOMAIN base \cup {"solution"} |->
                 IF k = "solution" THEN sol ELSE base[k]]
        ELSE base

\* the branch taken when verification_details is empty or None: it reads the
\* names h and record, which nothing has bound, before anything else
SummarizeFallback == Raised(<<"NameError">>)

summarize(initial_query, qs, ans, cur_question, sol, verification_details) ==
    LET current_q_text == IF Truthy(cur_question) THEN cur_question ELSE initial_query
    IN  IF TruthyRecords(verification_details)
        THEN [raised |-> FALSE,
              hypotheses_history |->
                  [i \in 1..Len(verification_details) |->
                      CycleRecord(verification_details[i], initial_query,
                                  current_q_text, qs, ans, sol)]]
        ELSE SummarizeFallback

-----------------------------------------------------------------------------
(* save_results *)

ReportHeader == <<"# System Design Interview Report">>

\* faulty variant: the answers are paired with the questions back to front
QALines_Crossed(qs, ans) ==
    LET n == IF Len(qs) <= Len(ans) THEN Len(qs) ELSE Len(ans)
    IN  [k \in 1..(2 * n) |->
            IF k % 2 = 1
            THEN <<"- **Q:** ">> \o qs[(k + 1) \div 2]
            ELSE <<"  **A:** ">> \o ans[n + 1 - (k \div 2)]]

\* the "- **Q:**" and "  **A:**" lines of zip(questions, answers)
QALines(qs, ans) ==
    LET n == Min(Len(qs), Len(ans))
    IN  [k \in 1..(2 * n) |->
            IF k % 2 = 1
            THEN <<"- **Q:** ">> \o PyStr(qs[(k + 1) \div 2])
            ELSE <<"  **A:** ">> \o PyStr(ans[k \div 2])]

\* faulty variant: the solution is printed for every record that has one
StatusLines_SolutionAlways(record) ==
    (IF Flag(record, "is_valid")
     THEN << <<"**Status:** Valid">> >>
          \o (IF Flag(record, "is_the_best_hypothesis")
              THEN << <<"**Result:** Selected as Best Hypothesis">> >>
              ELSE <<>>)
     ELSE << <<"**Status:** Invalid">>,
             <<"**Invalid Reason:** ">>
                 \o PyOr(Get(record, "why_not_valid"), <<"No reason provided.">>) >>)
    \o (IF Truthy(Get(record, "solution"))
        THEN << <<"\n#### Solution">>, record.solution >>
        ELSE <<>>)

\* the status lines of a record: the branch on record.get('is_valid')
StatusLines(record) ==
    IF Flag(record, "is_valid")
    THEN << <<"**Status:** Valid">> >>
         \o (IF Flag(record, "is_the_best_hypothesis")
             THEN << <<"**Result:** Selected as Best Hypothesis">> >>
                  \o (IF Truthy(Get(record, "solution"))
                      THEN << <<"\n#### Solution">>, record.solution >>
                      ELSE <<>>)
             ELSE <<>>)
    ELSE << <<"**Status:** Invalid">>,
            <<"**Invalid Reason:** ">>
                \o PyOr(Get(record, "why_not_valid"), <<"No reason provided.">>) >>

\* the lines appended for record number i (counted from 1)
RecordLines(i, record) ==
    LET qs == GetOr(record, "verification_questions", <<>>)
        ans == GetOr(record, "verification_answers", <<>>)
        head == << <<"### Hypothesis ", ToString(i)>>,
                   <<"**Question:** ">> \o PyStr(Get(record, "current_question")) \o <<"\n">>,
                   <<"**Hypothesis:** ">> \o PyStr(Get(record, "hypothesis")) \o <<"\n">> >>
        qa == IF NonEmpty(qs) /\ NonEmpty(ans)
              THEN << <<"**Verification:**">> >> \o QALines(qs, ans) \o << <<>> >>
              ELSE <<>>
    IN  head \o qa \o StatusLines(record) \o << <<"\n---\n">> >>

\* faulty variant: the loop ends after the first record it renders
ReportLinesFrom_FirstOnly(hist, i) ==
    IF i > Len(hist) THEN <<>> ELSE RecordLines(i, hist[i])

\* the list "lines" when the loop over the history has ended
RECURSIVE ReportLinesFrom(_, _)
ReportLinesFrom(hist, i) ==
    IF i > Len(hist) THEN <<>>
    ELSE RecordLines(i, hist[i]) \o ReportLinesFrom(hist, i + 1)

\* faulty variant: the history is iterated without "or []"
ReportLines_NoGuard(hist) == <<ReportHeader>> \o ReportLinesFrom(hist, 1)

ReportLines(hist) ==
    <<ReportHeader>> \o ReportLinesFrom(IF TruthyRecords(hist) THEN hist ELSE <<>>, 1)

\* faulty variant: the report is stamped with whether it was rendered before
save_results_Stamped(hist) ==
    [report |-> Join(ReportLines(hist), <<"\n">>)
                    \o (IF ret = [pending |-> TRUE] THEN <<>> ELSE <<"again">>)]

save_results(hist) == [report |-> Join(ReportLines(hist), <<"\n">>)]

-----------------------------------------------------------------------------
(* The structured-output calls of generate_hypotheses and verify_hypotheses *)

\* model output that does not parse into the schema asked for
Malformed == [malformed |-> TRUE]

\* what chain.invoke hands back for such output: the parser's exception, or
\* no object at all
ParseOutcomes == {"raises", "returns_none"}

\* neither function catches anything: the parser's exception leaves the
\* function, and None fails at the first attribute read
StructuredFailure(outcome) ==
    IF outcome = "raises"
    THEN Raised(<<"OutputParserException">>)
    ELSE Raised(<<"AttributeError">>)

generate_hypotheses(response, outcome) ==
    IF response = Malformed
    THEN StructuredFailure(outcome)
    ELSE [raised |-> FALSE,
          hypotheses |-> response.hypotheses,
          verification_questions |-> response.verification_questions]

\* verify_hypotheses from its chain.invoke on
verify_hypotheses_from(response, outcome) ==
    IF response = Malformed
    THEN StructuredFailure(outcome)
    ELSE verify_hypotheses(response)

-----------------------------------------------------------------------------
(* The signatures of the node functions and Python's keyword binding *)

Signature(params, required, var_keyword) ==
    [params |-> params, required |-> required, var_keyword |-> var_keyword]

Signatures ==
    [generate_hypotheses |->
         Signature({"current_question", "initial", "hypotheses_history", "config"},
                   {}, FALSE),
     ask_user_verification |->
         Signature({"questions", "config"}, {"questions", "config"}, TRUE),
     verify_hypotheses |->
         Signature({"hypotheses", "answers", "questions", "hypotheses_history",
                    "config"},
                   {"hypotheses", "answers"}, FALSE),
     ask_user_retry |->
         Signature({"is_valid", "reason", "config"},
                   {"is_valid", "reason", "config"}, TRUE),
     generate_solution |->
         Signature({"hypothesis", "draft", "is_valid", "hypotheses_history",
                    "questions", "answers", "config"},
                   {"hypothesis", "draft", "is_valid"}, FALSE),
     critic_review |->
         Signature({"solution", "is_valid", "hypothesis", "hypotheses_history",
                    "questions", "answers", "config"},
                   {"solution", "is_valid", "hypothesis"}, FALSE),
     summarize |->
         Signature({"initial", "hypotheses", "questions", "answers", "hypothesis",
                    "is_valid", "reason", "current_question", "solution",
                    "verification_details", "config"},
                   {"initial", "hypotheses", "questions", "answers", "hypothesis",
                    "is_valid", "reason"}, FALSE),
     ask_user_next_steps |->
         Signature({"solution", "is_valid", "hypotheses_history", "config"},
                   {"solution", "is_valid"}, FALSE),
     determine_next_state |->
         Signature({"verification_reason", "next_input", "next_action",
                    "is_valid", "config"},
                   {}, FALSE),
     save_results |->
         Signature({"history", "config"}, {"history", "config"}, FALSE)]

NodeFunctions == DOMAIN Signatures

\* f(**keywords): a keyword the signature does not name is a TypeError
\* unless the signature ends in **kwargs; so is a required parameter that is
\* not supplied
BindKeywords(f, keywords) ==
    LET sig == Signatures[f]
    IN  IF ~sig.var_keyword /\ ~(keywords \subseteq sig.params)
        THEN Raised(<<"TypeError">>)
        ELSE IF ~(sig.required \subseteq keywords)
        THEN Raised(<<"TypeError">>)
        ELSE [raised |-> FALSE]

-----------------------------------------------------------------------------
(* Values the environment supplies: the model's answers and the human's *)

\* free text of a caller or of the model, also absent
Texts == SeqUpTo(Alphabet, MaxLen)
OptTexts == Texts \cup {None}

NextActions == {ActStop, ActLoop, ActContinue, None}

H1 == <<"H1">>
H2 == <<"H2">>

\* the verdicts a structured response can hold
Verdicts ==
    {Verdict(h, v, r, b) : h \in {H1, H2}, v \in BOOLEAN,
                           r \in {None, <<>>, <<"r">>}, b \in BOOLEAN}

VerdictLists == SeqUpTo(Verdicts, MaxVerdicts)

\* the HypothesesList objects the model returns
HypothesesOutputs ==
    {[hypotheses |-> <<H1, H2>>, verification_questions |-> << <<"Q1">> >>],
     [hypotheses |-> <<H1>>, verification_questions |-> << <<"Q1">>, <<"Q2">> >>]}

\* a VerificationResult
Response(feedback, draft) == [hypotheses_feedback |-> feedback, solution_draft |-> draft]

-----------------------------------------------------------------------------
(* The session before its first invoke *)

NoVerification ==
    [is_valid |-> FALSE, best_hypothesis |-> None, solution_draft |-> None,
     verification_reason |-> None, verification_details |-> NoRecords]

NoResume == [at |-> "none", value |-> None]

\* no evaluation harness is attached to the session
EvalOff ==
    /\ eval_state = "off"
    /\ eval_trace = <<>>
    /\ final_report = None

\* the values workflow_status is given
Idle == "idle"
Running == "running"
Interrupted == "interrupted"
Resuming == "resuming"
Finished == "finished"

\* no resume_value has been stored
NoValue == [form |-> "none"]

\* no invoke has been made
NoInvoke == [n |-> 0, kind |-> "none", thread |-> 0, from |-> "none",
             outcome |-> "none", stale |-> FALSE]

\* the first run of the script in a browser session: every key is missing,
\* thread_id is a new uuid4, the app is built with an empty MemorySaver
UIFirstRun ==
    /\ workflow_status = Idle
    /\ thread_id = 1
    /\ uuids = 1
    /\ resume_value = NoValue
    /\ request = "none"
    /\ checkpoints = {}
    /\ invocation = NoInvoke

WfInit ==
    /\ status = "new"
    /\ pc = "start"
    /\ cycle = 0
    /\ initial = None
    /\ current_question = None
    /\ gh_question = None
    /\ hypotheses = <<>>
    /\ questions = <<>>
    /\ answers = <<>>
    /\ verification = NoVerification
    /\ solution = None
    /\ final_solution = None
    /\ retry_input = None
    /\ next_action = None
    /\ next_input = None
    /\ should_stop = FALSE
    /\ history = <<>>
    /\ report = None
    /\ failure = None
    /\ ran = {}
    /\ last_resume = NoResume
    /\ verdict_total = 0

-----------------------------------------------------------------------------
(* calculate_metrics, run by sessions that share one process *)

\* the sessions (distinct thread keys) that run in the process
Sessions == {"A", "B"}

\* the stream sys.stdout names when the process starts
Console == <<"console", "">>
\* the StringIO the call of session t creates
StringIO(t) == <<"StringIO", t>>

\* exception classes a script can raise; SystemExit (exit(), sys.exit()) is
\* a BaseException that is not an Exception
ExceptionClasses == {"ZeroDivisionError", "SystemExit"}
IsException(class) == class # "SystemExit"

PrintStatement == [op |-> "print"]
RaiseStatement(class) == [op |-> "raise", class |-> class]
Statements == {PrintStatement} \cup {RaiseStatement(c) : c \in ExceptionClasses}
Scripts == SeqUpTo(Statements, MaxScript)

\* whether running the script raises, and what
ScriptRaises(sc) == \E i \in 1..Len(sc) : sc[i].op = "raise"
FirstRaised(sc) ==
    sc[CHOOSE i \in 1..Len(sc) :
           sc[i].op = "raise" /\ \A j \in 1..(i - 1) : sc[j].op # "raise"].class

\* f"Error executing code: {e}"
ErrorText(class) == <<"Error executing code: ", class>>

ToolIdle ==
    /\ sys_stdout = Console
    /\ console = <<>>
    /\ tpc = [t \in Sessions |-> "idle"]
    /\ script = [t \in Sessions |-> <<>>]
    /\ rest = [t \in Sessions |-> <<>>]
    /\ old_stdout = [t \in Sessions |-> Console]
    /\ buffer = [t \in Sessions |-> <<>>]
    /\ result = [t \in Sessions |-> None]

\* the model of session t calls the tool: calculate_metrics(script=sc)
ToolCall(t, sc) ==
    /\ tpc[t] = "idle"
    /\ tpc' = [tpc EXCEPT ![t] = "called"]
    /\ script' = [script EXCEPT ![t] = sc]
    /\ rest' = [rest EXCEPT ![t] = sc]
    /\ UNCHANGED <<fnVars, wfVars, evalVars, uiVars, sys_stdout, console, old_stdout, buffer, result>>

\* old_stdout = sys.stdout
SaveStdout(t) ==
    /\ tpc[t] = "called"
    /\ old_stdout' = [old_stdout EXCEPT ![t] = sys_stdout]
    /\ tpc' = [tpc EXCEPT ![t] = "saved"]
    /\ UNCHANGED <<fnVars, wfVars, evalVars, uiVars, sys_stdout, console, script, rest, buffer, result>>

\* redirected_output = sys.stdout = StringIO()
Redirect(t) ==
    /\ tpc[t] = "saved"
    /\ sys_stdout' = StringIO(t)
    /\ buffer' = [buffer EXCEPT ![t] = <<>>]
    /\ tpc' = [tpc EXCEPT ![t] = "running"]
    /\ UNCHANGED <<fnVars, wfVars, evalVars, uiVars, console, script, rest, old_stdout, result>>

\* exec runs a print: the line goes to whatever sys.stdout names now
ExecPrint(t) ==
    /\ tpc[t] = "running"
    /\ rest[t] # <<>>
    /\ Head(rest[t]).op = "print"
    /\ rest' = [rest EXCEPT ![t] = Tail(rest[t])]
    /\ IF sys_stdout = Console
       THEN /\ console' = Append(console, t)
            /\ UNCHANGED buffer
       ELSE /\ buffer' = [buffer EXCEPT ![sys_stdout[2]] = Append(@, t)]
            /\ UNCHANGED console
    /\ UNCHANGED <<fnVars, wfVars, evalVars, uiVars, sys_stdout, tpc, script, old_stdout, result>>

\* exec raises: "except Exception" returns the error text for an Exception
\* and lets every other BaseException leave the call; sys.stdout is not
\* restored on either way out
ExecRaise(t) ==
    /\ tpc[t] = "running"
    /\ rest[t] # <<>>
    /\ Head(rest[t]).op = "raise"
    /\ LET class == Head(rest[t]).class
       IN  IF IsException(class)
           THEN /\ tpc' = [tpc EXCEPT ![t] = "returned"]
                /\ result' = [result EXCEPT ![t] = ErrorText(class)]
           ELSE /\ tpc' = [tpc EXCEPT ![t] = "propagated"]
                /\ result' = [result EXCEPT ![t] = <<"raised", class>>]
    /\ UNCHANGED <<fnVars, wfVars, evalVars, uiVars, sys_stdout, console, script, rest,
                   old_stdout, buffer>>

\* sys.stdout = old_stdout
Restore(t) ==
    /\ tpc[t] = "running"
    /\ rest[t] = <<>>
    /\ sys_stdout' = old_stdout[t]
    /\ tpc' = [tpc EXCEPT ![t] = "restored"]
    /\ UNCHANGED <<fnVars, wfVars, evalVars, uiVars, console, script, rest, old_stdout, buffer,
                   result>>

\* return redirected_output.getvalue().strip(): the lines in the StringIO
ReturnOutput(t) ==
    /\ tpc[t] = "restored"
    /\ result' = [result EXCEPT ![t] = <<"output">> \o buffer[t]]
    /\ tpc' = [tpc EXCEPT ![t] = "returned"]
    /\ UNCHANGED <<fnVars, wfVars, evalVars, uiVars, sys_stdout, console, script, rest,
                   old_stdout, buffer>>

ToolInit ==
    /\ call = [fn |-> "none"]
    /\ ret = [pending |-> TRUE]
    /\ WfInit
    /\ ToolIdle
    /\ EvalOff
    /\ UIFirstRun

ToolNext ==
    \E t \in Sessions :
        \/ \E sc \in Scripts : ToolCall(t, sc)
        \/ SaveStdout(t)
        \/ Redirect(t)
        \/ ExecPrint(t)
        \/ ExecRaise(t)
        \/ Restore(t)
        \/ ReturnOutput(t)

ToolSpec == ToolInit /\ [][ToolNext]_vars

-----------------------------------------------------------------------------
(* FnSpec: one direct call of a node function, its arguments drawn in Init *)

Pending == [pending |-> TRUE]

DecisionCalls ==
    {[fn |-> "determine_next_state", verification_reason |-> vr, next_input |-> ni,
      next_action |-> na, is_valid |-> iv] :
        vr \in OptTexts, ni \in OptTexts, na \in NextActions, iv \in BOOLEAN}

\* the values a caller resumes AskUserVerification with, by Python type:
\* the list of answers, an object, a bare text
ListOfAnswers == [type |-> "list", items |-> << <<"A1">> >>]
ObjectWithAnswers == [type |-> "dict", keys |-> {"answers"}]
BareText == [type |-> "str", text |-> <<"a">>]
ResumedAnswers == {ListOfAnswers, ObjectWithAnswers, BareText}

\* verify_hypotheses only logs `answers` and hands it to the prompt; what it
\* returns is computed from the structured response alone
VerifyCalls ==
    {[fn |-> "verify_hypotheses", answers |-> ListOfAnswers,
      response |-> Response(fb, d)] :
        fb \in VerdictLists, d \in {None, <<"d">>}}
    \cup
    {[fn |-> "verify_hypotheses", answers |-> ans,
      response |-> Response(<<v>>, <<"d">>)] :
        ans \in ResumedAnswers, v \in Verdicts}

\* a cycle's verdicts and solution handed to summarize
SummarizeCalls ==
    {[fn |-> "summarize", initial |-> <<"q">>, questions |-> <<<<"Q1">>>>,
      answers |-> <<<<"A1">>>>, current_question |-> cq, solution |-> sol,
      verification_details |-> vd] :
        cq \in {None, <<"c">>}, sol \in {None, <<>>, <<"s">>},
        vd \in VerdictLists \cup {NoRecords}}

\* the structured-output calls whose model output does not parse
MalformedCalls ==
    {[fn |-> f, answers |-> ListOfAnswers, response |-> Malformed, parse |-> o] :
        f \in {"generate_hypotheses", "verify_hypotheses"}, o \in ParseOutcomes}

GenerateCalls ==
    {[fn |-> "generate_hypotheses", response |-> out] : out \in HypothesesOutputs}

\* keywords the surrounding graph may pass although the node does not use them
ExtraKeywords == {"is_valid", "random_arg", "extra"}

\* a node function called with its required inputs, config and extra keywords
KeywordCalls ==
    {[fn |-> "keyword_call", node |-> f,
      keywords |-> Signatures[f].required \cup {"config"} \cup extra] :
        f \in NodeFunctions, extra \in SUBSET ExtraKeywords}

\* the questions asked and the answers given in a cycle: as many answers as
\* questions, fewer, more, none
QuestionLists == {<<>>, << <<"Q1">> >>, << <<"Q1">>, <<"Q2">> >>}
GivenAnswerLists ==
    {<<>>, << <<"A1">> >>, << <<"A1">>, <<"A2">> >>,
     << <<"A2">>, <<"A1">>, <<"A1">> >>}

\* the records of one cycle with those questions and answers
ShownCycles ==
    {summarize(<<"q">>, qs, ans, None, <<"s">>, vd).hypotheses_history :
        qs \in QuestionLists, ans \in GivenAnswerLists,
        vd \in {<<Verdict(H1, TRUE, None, TRUE)>>,
                <<Verdict(H1, FALSE, <<"r">>, FALSE), Verdict(H2, TRUE, None, FALSE)>>}}

\* histories of one cycle and of two
ShownHistories == ShownCycles \cup {c1 \o c2 : c1, c2 \in ShownCycles}

\* records that hold a solution although they are not the valid best one: a
\* history need not come from summarize
UnselectedHistories ==
    {<<[initial_query |-> <<"q">>,
        current_question |-> <<"q">>,
        hypothesis |-> H1,
        verification_questions |-> <<>>,
        verification_answers |-> <<>>,
        is_the_best_hypothesis |-> best,
        is_valid |-> valid,
        why_not_valid |-> IF valid THEN None ELSE <<"r">>,
        solution |-> <<"s">>]>> :
        valid \in BOOLEAN, best \in BOOLEAN}

\* the histories save_results is handed: what summarize returns for a cycle,
\* the empty history and no history
RenderedHistories ==
    {summarize(<<"q">>, <<<<"Q1">>>>, <<<<"A1">>>>, None, sol, vd).hypotheses_history :
        sol \in {None, <<"s">>},
        vd \in SeqUpTo({v \in Verdicts : v.hypothesis = H1 /\ v.reason # <<>>},
                       MaxVerdicts) \ {<<>>}}
    \cup {<<>>, NoRecords}
    \cup ShownHistories
    \cup UnselectedHistories

\* given: the history as it was before the first rendering; first: the
\* report of the first rendering once there has been one
SaveCalls ==
    {[fn |-> "save_results", given |-> hist, history |-> hist, first |-> None] :
        hist \in RenderedHistories}

FnInit ==
    /\ call \in DecisionCalls \cup VerifyCalls \cup SummarizeCalls
                \cup MalformedCalls \cup GenerateCalls \cup KeywordCalls
                \cup SaveCalls
    /\ ret = Pending
    /\ WfInit
    /\ ToolIdle
    /\ EvalOff
    /\ UIFirstRun

CallDetermineNextState ==
    /\ ret = Pending
    /\ call.fn = "determine_next_state"
    /\ ret' = determine_next_state(call.verification_reason, call.next_input,
                                   call.next_action, call.is_valid)
    /\ UNCHANGED <<call, wfVars, toolVars, evalVars, uiVars>>

CallVerifyHypotheses ==
    /\ ret = Pending
    /\ call.fn = "verify_hypotheses"
    /\ ret' = verify_hypotheses_from(call.response,
                  IF call.response = Malformed THEN call.parse ELSE "parsed")
    /\ UNCHANGED <<call, wfVars, toolVars, evalVars, uiVars>>

CallSummarize ==
    /\ ret = Pending
    /\ call.fn = "summarize"
    /\ ret' = summarize(call.initial, call.questions, call.answers,
                        call.current_question, call.solution,
                        call.verification_details)
    /\ UNCHANGED <<call, wfVars, toolVars, evalVars, uiVars>>

CallGenerateHypotheses ==
    /\ ret = Pending
    /\ call.fn = "generate_hypotheses"
    /\ ret' = generate_hypotheses(call.response,
                  IF call.response = Malformed THEN call.parse ELSE "parsed")
    /\ UNCHANGED <<call, wfVars, toolVars, evalVars, uiVars>>

CallWithKeywords ==
    /\ ret = Pending
    /\ call.fn = "keyword_call"
    /\ ret' = BindKeywords(call.node, call.keywords)
    /\ UNCHANGED <<call, wfVars, toolVars, evalVars, uiVars>>

\* save_results reads its history and writes only its own list of lines
CallSaveResults ==
    /\ ret = Pending
    /\ call.fn = "save_results"
    /\ ret' = save_results(call.history)
    /\ UNCHANGED <<call, wfVars, toolVars, evalVars, uiVars>>

\* the history as the first rendering left it is rendered a second time
RenderAgain ==
    /\ ret # Pending
    /\ call.fn = "save_results"
    /\ call.first = None
    /\ call' = [call EXCEPT !.first = ret.report]
    /\ ret' = save_results(call.history)
    /\ UNCHANGED <<wfVars, toolVars, evalVars, uiVars>>

FnNext ==
    \/ CallDetermineNextState
    \/ CallVerifyHypotheses
    \/ CallSummarize
    \/ CallGenerateHypotheses
    \/ CallWithKeywords
    \/ CallSaveResults
    \/ RenderAgain

FnSpec == FnInit /\ [][FnNext]_vars

\* the call of the given function has returned
Returned(fn) == call.fn = fn /\ ret # Pending

-----------------------------------------------------------------------------
(* Spec: one session of the workflow.  The graph (which node follows which,  *)
(* where the runtime suspends, how a resume value and a node's outputs are   *)
(* merged into the state) is the runtime's and the workflow definition's;    *)
(* the node functions are the operators above.                               *)

\* what the language model and the human supply during a session
InitialQuestions == {<<"q">>}

AnswerLists == { << <<"A1">> >> }

SessionVerdictLists ==
    { <<>>,
      <<Verdict(H1, FALSE, <<"r">>, FALSE)>>,
      <<Verdict(H1, TRUE, None, TRUE)>>,
      <<Verdict(H1, TRUE, None, TRUE), Verdict(H2, FALSE, <<"r">>, FALSE)>>,
      <<Verdict(H1, FALSE, None, FALSE), Verdict(H2, TRUE, <<"r">>, FALSE)>>,
      <<Verdict(H1, FALSE, <<"r">>, TRUE), Verdict(H2, TRUE, None, FALSE)>> }

SessionResponses == {Response(fb, <<"d">>) : fb \in SessionVerdictLists}

SolutionTexts == {<<"s">>}
FinalSolutionTexts == {<<"f">>}
RetryTexts == {<<>>, <<"t">>}

NextStepsValues ==
    {[next_action |-> ActStop, new_input |-> <<>>],
     [next_action |-> ActLoop, new_input |-> <<>>],
     [next_action |-> ActContinue, new_input |-> <<"n">>]}

\* faulty variant: the runtime also interrupts at the Summarize node
SuspendNodes_AlsoSummarize ==
    {"AskUserVerification", "AskUserRetry", "AskUserNextSteps", "Summarize"}

\* the human-interaction nodes, where the runtime interrupts
SuspendNodes == {"AskUserVerification", "AskUserRetry", "AskUserNextSteps"}

\* faulty variant: the answers are not waited for
AfterGenerateHypotheses_NoSuspend == "VerifyHypotheses"

\* the node that follows GenerateHypotheses
AfterGenerateHypotheses == "AskUserVerification"

\* faulty variant: the solution is drafted whatever the verification said
AfterVerify_AlwaysSolve(is_valid) == "GenerateSolution"

\* faulty variant: the invalid path does not wait for the retry text
AfterVerify_SkipRetry(is_valid) == IF is_valid THEN "GenerateSolution" ELSE "Summarize"

\* the node that follows VerifyHypotheses
AfterVerify(is_valid) == IF is_valid THEN "GenerateSolution" ELSE "AskUserRetry"

\* the node that follows GenerateSolution
AfterGenerateSolution == "CriticReview"

\* faulty variant: the reviewed solution is not shown before it is recorded
AfterCriticReview_NoSuspend == "Summarize"

\* the node that follows CriticReview
AfterCriticReview == "AskUserNextSteps"

\* the payload of the interrupt raised at a human-interaction node
InterruptPayload ==
    CASE pc = "AskUserVerification" ->
             [questions |-> questions, hypotheses |-> hypotheses]
      [] pc = "AskUserRetry" ->
             [is_valid |-> verification.is_valid,
              reason |-> verification.verification_reason]
      [] pc = "AskUserNextSteps" -> [solution |-> final_solution]
      [] OTHER -> [none |-> TRUE]

\* the node that follows DetermineNextState
AfterDecision(stop) == IF stop THEN "SaveResults" ELSE "GenerateHypotheses"

\* "return {}"
EmptyUpdate == [key \in {} |-> TRUE]

\* faulty variant: the node hands the questions back as the answers
ask_user_verification_Echo(qs) == [answers |-> qs]

\* the three human-interaction functions: each returns {} whatever it is given
ask_user_verification(qs) == EmptyUpdate
ask_user_retry(is_valid, reason) == EmptyUpdate
ask_user_next_steps(sol, is_valid) == EmptyUpdate

\* what the human-interaction node about to run returns
HumanNodeUpdate ==
    CASE pc = "AskUserVerification" -> ask_user_verification(questions)
      [] pc = "AskUserRetry" ->
             ask_user_retry(verification.is_valid, verification.verification_reason)
      [] pc = "AskUserNextSteps" ->
             ask_user_next_steps(final_solution, verification.is_valid)
      [] OTHER -> EmptyUpdate

\* a node's update merged into a field of the state
Merged(update, key, old) == IF key \in DOMAIN update THEN update[key] ELSE old

\* the state variables no node output or resume value is merged into by a
\* step that only moves the session along
cycleData == <<hypotheses, questions, answers, verification, solution,
               final_solution, retry_input, next_action, next_input>>

\* app.invoke({"initial_question": q}, config)
StartSession(q) ==
    /\ status = "new"
    /\ status' = "running"
    /\ pc' = "GenerateHypotheses"
    /\ initial' = q
    /\ UNCHANGED <<fnVars, toolVars, uiVars, cycle, current_question, gh_question, cycleData,
                   should_stop, history, report, failure, ran, last_resume,
                   verdict_total>>

\* node GenerateHypotheses: generate_hypotheses works on
\* "current_question or initial" and returns the model's two lists
GenerateHypotheses(out) ==
    /\ status = "running"
    /\ pc = "GenerateHypotheses"
    \* run_evaluation_loop makes five invokes and stops: a session it drives
    \* is bounded by its script
    /\ cycle < MaxCycles \/ eval_state = "running"
    /\ cycle' = cycle + 1
    /\ gh_question' = PyOr(current_question, initial)
    /\ hypotheses' = out.hypotheses
    /\ questions' = out.verification_questions
    /\ ran' = {"GenerateHypotheses"}
    /\ pc' = AfterGenerateHypotheses
    /\ UNCHANGED <<fnVars, toolVars, evalVars, uiVars, status, initial, current_question, answers,
                   verification, solution, final_solution, retry_input,
                   next_action, next_input, should_stop, history, report,
                   failure, last_resume, verdict_total>>

\* the runtime reaches a human-interaction node: the invoke returns with an
\* interrupt and the session stays suspended at that node
Suspend ==
    /\ status = "running"
    /\ pc \in SuspendNodes
    /\ status' = "suspended"
    /\ ran' = ran \cup {pc}
    /\ answers' = Merged(HumanNodeUpdate, "answers", answers)
    /\ retry_input' = Merged(HumanNodeUpdate, "retry_input", retry_input)
    /\ next_action' = Merged(HumanNodeUpdate, "next_action", next_action)
    /\ next_input' = Merged(HumanNodeUpdate, "new_input", next_input)
    /\ UNCHANGED <<fnVars, toolVars, evalVars, uiVars, pc, cycle, initial, current_question,
                   gh_question, hypotheses, questions, verification, solution,
                   final_solution, should_stop, history, report, failure,
                   last_resume, verdict_total>>

\* app.invoke(Command(resume=answers), config) at AskUserVerification;
\* ask_user_verification itself returns {}
ResumeVerification(value) ==
    /\ status = "suspended"
    /\ pc = "AskUserVerification"
    /\ answers' = value
    /\ last_resume' = [at |-> pc, value |-> value]
    /\ status' = "running"
    /\ pc' = "VerifyHypotheses"
    /\ UNCHANGED <<fnVars, toolVars, uiVars, cycle, initial, current_question, gh_question,
                   hypotheses, questions, verification, solution,
                   final_solution, retry_input, next_action, next_input,
                   should_stop, history, report, failure, ran, verdict_total>>

\* node VerifyHypotheses, then the branch on its is_valid
VerifyHypotheses(response) ==
    /\ status = "running"
    /\ pc = "VerifyHypotheses"
    /\ verification' = verify_hypotheses(response)
    /\ ran' = ran \cup {pc}
    /\ pc' = AfterVerify(verification'.is_valid)
    /\ verdict_total' = verdict_total + Len(response.hypotheses_feedback)
    /\ UNCHANGED <<fnVars, toolVars, evalVars, uiVars, status, cycle, initial, current_question,
                   gh_question, hypotheses, questions, answers, solution,
                   final_solution, retry_input, next_action, next_input,
                   should_stop, history, report, failure, last_resume>>

\* app.invoke(Command(resume=text), config) at AskUserRetry; ask_user_retry
\* itself returns {}
ResumeRetry(value) ==
    /\ status = "suspended"
    /\ pc = "AskUserRetry"
    /\ retry_input' = value
    /\ last_resume' = [at |-> pc, value |-> value]
    /\ status' = "running"
    /\ pc' = "Summarize"
    /\ UNCHANGED <<fnVars, toolVars, uiVars, cycle, initial, current_question, gh_question,
                   hypotheses, questions, answers, verification, solution,
                   final_solution, next_action, next_input, should_stop,
                   history, report, failure, ran, verdict_total>>

\* node GenerateSolution: the model's text is the solution
GenerateSolution(content) ==
    /\ status = "running"
    /\ pc = "GenerateSolution"
    /\ solution' = content
    /\ ran' = ran \cup {pc}
    /\ pc' = AfterGenerateSolution
    /\ UNCHANGED <<fnVars, toolVars, evalVars, uiVars, status, cycle, initial, current_question,
                   gh_question, hypotheses, questions, answers, verification,
                   final_solution, retry_input, next_action, next_input,
                   should_stop, history, report, failure, last_resume,
                   verdict_total>>

\* node CriticReview: the model's text is the final_solution
CriticReview(content) ==
    /\ status = "running"
    /\ pc = "CriticReview"
    /\ final_solution' = content
    /\ ran' = ran \cup {pc}
    /\ pc' = AfterCriticReview
    /\ UNCHANGED <<fnVars, toolVars, evalVars, uiVars, status, cycle, initial, current_question,
                   gh_question, hypotheses, questions, answers, verification,
                   solution, retry_input, next_action, next_input,
                   should_stop, history, report, failure, last_resume,
                   verdict_total>>

\* app.invoke(Command(resume={"next_action": .., "new_input": ..}), config)
\* at AskUserNextSteps; ask_user_next_steps itself returns {}
ResumeNextSteps(value) ==
    /\ status = "suspended"
    /\ pc = "AskUserNextSteps"
    /\ next_action' = value.next_action
    /\ next_input' = value.new_input
    /\ last_resume' = [at |-> pc, value |-> value]
    /\ status' = "running"
    /\ pc' = "Summarize"
    /\ UNCHANGED <<fnVars, toolVars, uiVars, cycle, initial, current_question, gh_question,
                   hypotheses, questions, answers, verification, solution,
                   final_solution, retry_input, should_stop, history, report,
                   failure, ran, verdict_total>>

\* node Summarize: the records summarize returns are appended to the
\* history; an exception it raises ends the invoke
Summarize ==
    /\ status = "running"
    /\ pc = "Summarize"
    /\ LET out == summarize(initial, questions, answers, current_question,
                            solution, verification.verification_details)
       IN  IF out.raised
           THEN /\ status' = "failed"
                /\ failure' = out.exception
                /\ UNCHANGED <<pc, history>>
           ELSE /\ history' = history \o out.hypotheses_history
                /\ pc' = "DetermineNextState"
                /\ UNCHANGED <<status, failure>>
    /\ ran' = ran \cup {pc}
    /\ UNCHANGED <<fnVars, toolVars, evalVars, uiVars, cycle, initial, current_question, gh_question,
                   cycleData, should_stop, report, last_resume, verdict_total>>

\* node DetermineNextState, then the loop back or the way out
DetermineNextState ==
    /\ status = "running"
    /\ pc = "DetermineNextState"
    /\ LET out == determine_next_state(verification.verification_reason,
                                       next_input, next_action,
                                       verification.is_valid)
       IN  /\ should_stop' = out.should_stop
           /\ current_question' = out.next_question
           /\ pc' = AfterDecision(out.should_stop)
    /\ ran' = ran \cup {pc}
    /\ UNCHANGED <<fnVars, toolVars, evalVars, uiVars, status, cycle, initial, gh_question, cycleData,
                   history, report, failure, last_resume, verdict_total>>

\* node SaveResults: the report is the session's output and the invoke
\* returns
SaveResults ==
    /\ status = "running"
    /\ pc = "SaveResults"
    /\ report' = save_results(history).report
    /\ status' = "finished"
    /\ pc' = "done"
    /\ ran' = ran \cup {pc}
    /\ UNCHANGED <<fnVars, toolVars, evalVars, uiVars, cycle, initial, current_question, gh_question,
                   cycleData, should_stop, history, failure, last_resume,
                   verdict_total>>

\* the steps the runtime takes on its own while an invoke runs
NodeStep ==
    \/ \E out \in HypothesesOutputs : GenerateHypotheses(out)
    \/ Suspend
    \/ \E response \in SessionResponses : VerifyHypotheses(response)
    \/ \E content \in SolutionTexts : GenerateSolution(content)
    \/ \E content \in FinalSolutionTexts : CriticReview(content)
    \/ Summarize
    \/ DetermineNextState
    \/ SaveResults

\* the invokes of the caller
CallerStep ==
    \/ \E q \in InitialQuestions : StartSession(q) /\ UNCHANGED evalVars
    \/ \E value \in AnswerLists : ResumeVerification(value) /\ UNCHANGED evalVars
    \/ \E value \in RetryTexts : ResumeRetry(value) /\ UNCHANGED evalVars
    \/ \E value \in NextStepsValues : ResumeNextSteps(value) /\ UNCHANGED evalVars

Init ==
    /\ call = [fn |-> "none"]
    /\ ret = Pending
    /\ WfInit
    /\ ToolIdle
    /\ EvalOff
    /\ UIFirstRun

Next == NodeStep \/ CallerStep

Spec == Init /\ [][Next]_vars

\* an invoke, once started, runs its nodes until it suspends, returns or fails
FairSpec == Spec /\ WF_vars(NodeStep)

-----------------------------------------------------------------------------
(* EvalSpec: run_evaluation_loop driving the session of one task.  The      *)
(* harness is a straight-line program; between two of its calls the runtime *)
(* executes the nodes of the invoke in progress.                            *)

\* final_report = final_report or "No Report Found"
NoReportFound == <<"No Report Found">>

\* the texts interviewer.generate_challenge returns
Challenges == {<<"n">>}

\* the calls run_evaluation_loop makes for one task, in program order
EvalScript ==
    <<"invoke", "answer_verification", "resume_answers", "generate_challenge",
      "resume_continue", "answer_verification", "resume_answers",
      "resume_stop", "score_report">>

\* the statement the harness is about to execute
EvalNextCall ==
    IF Len(eval_trace) < Len(EvalScript)
    THEN EvalScript[Len(eval_trace) + 1]
    ELSE "none"

\* app.invoke(...) is over and did not raise anything the harness lets through:
\* the session is suspended (GraphInterrupt, swallowed) or has returned
InvokeReturned == status \in {"suspended", "finished"}

\* Command(resume=value): the runtime hands the value to whichever
\* human-interaction node the session is suspended at
Deliver(value) ==
    \/ ResumeVerification(value)
    \/ ResumeRetry(value)
    \/ ResumeNextSteps(value)

\* app.invoke({"initial_question": task['initial_prompt']}, config)
EvalInvoke(q) ==
    /\ eval_state = "off"
    /\ EvalNextCall = "invoke"
    /\ StartSession(q)
    /\ eval_state' = "running"
    /\ eval_trace' = Append(eval_trace, "invoke")
    /\ UNCHANGED final_report

\* interviewer.answer_verification(...) and interviewer.generate_challenge(...):
\* calls to the simulated interviewer, which leave the session alone
EvalAsk(step) ==
    /\ eval_state = "running"
    /\ InvokeReturned
    /\ EvalNextCall = step
    /\ eval_trace' = Append(eval_trace, step)
    /\ UNCHANGED <<fnVars, wfVars, toolVars, uiVars, eval_state, final_report>>

\* app.invoke(Command(resume=...), config)
EvalResume(step, value) ==
    /\ eval_state = "running"
    /\ status = "suspended"
    /\ EvalNextCall = step
    /\ Deliver(value)
    /\ eval_trace' = Append(eval_trace, step)
    /\ UNCHANGED <<eval_state, final_report>>

\* an invoke raised what the harness does not catch: the exception of a node,
\* or the GraphInterrupt of the last invoke, which is outside any try (a
\* runtime that reports the interrupt without raising lets the harness go on)
EvalCrash ==
    /\ eval_state = "running"
    /\ \/ status = "failed"
       \/ /\ status = "suspended"
          /\ EvalNextCall = "score_report"
    /\ eval_state' = "crashed"
    /\ UNCHANGED <<fnVars, wfVars, toolVars, uiVars, eval_trace, final_report>>

\* final_report = snapshot.values.get("SaveResults.report") or the
\* placeholder; interviewer.score_report(final_report, ideal_outcome)
EvalScore ==
    /\ eval_state = "running"
    /\ InvokeReturned
    /\ EvalNextCall = "score_report"
    /\ final_report' = PyOr(report, NoReportFound)
    /\ eval_trace' = Append(eval_trace, "score_report")
    /\ eval_state' = "done"
    /\ UNCHANGED <<fnVars, wfVars, toolVars, uiVars>>

EvalStep ==
    \/ \E q \in InitialQuestions : EvalInvoke(q)
    \/ EvalAsk("answer_verification")
    \/ EvalAsk("generate_challenge")
    \/ \E value \in AnswerLists : EvalResume("resume_answers", value)
    \/ \E challenge \in Challenges :
           EvalResume("resume_continue",
                      [next_action |-> ActContinue, new_input |-> challenge])
    \/ EvalResume("resume_stop", [next_action |-> ActStop, new_input |-> <<>>])
    \/ EvalCrash
    \/ EvalScore

EvalNext == NodeStep \/ EvalStep

EvalSpec == Init /\ [][EvalNext]_vars

-----------------------------------------------------------------------------
(* UISpec: the Streamlit page.  Each action is one run of the script (the   *)
(* session-state defaults at the top, then the branch of the current        *)
(* workflow_status); what an invoke does is the runtime's, so its outcome   *)
(* is drawn from the ways an invoke can end.                                 *)

\* the ways app.invoke can end, as the two try blocks tell them apart
InvokeOutcomes == {"interrupt_returned", "interrupt_raised", "returned", "exception"}

\* an interrupt, whether in the returned dict or raised as GraphInterrupt
IsInterrupt(outcome) == outcome \in {"interrupt_returned", "interrupt_raised"}

\* what the interrupted branch finds in the state: no task, or the request
\* of the node the session is suspended at, told apart by its keys
InterruptRequests == {"no_tasks", "questions", "solution", "is_valid", "unknown"}

\* the form the interrupted branch shows for a request
FormOf(req) ==
    CASE req = "questions" -> "verification_form"
      [] req = "solution" -> "next_steps_form"
      [] req = "is_valid" -> "retry_form"
      [] OTHER -> "none"

\* the resume_value each form stores
FormValues(req) ==
    CASE req = "questions" ->
             {[form |-> "verification_form", value |-> ans] : ans \in AnswerLists}
      [] req = "solution" ->
             {[form |-> "next_steps_form",
               value |-> [next_action |-> a, new_input |-> <<>>]] :
                 a \in {ActLoop, ActStop}}
      [] req = "is_valid" ->
             {[form |-> "retry_form", value |-> t] : t \in RetryTexts}
      [] OTHER -> {}

\* faulty variant: an exception of the invoke is shown as a finished workflow
StatusAfterInvoke_ErrorFinishes(outcome) ==
    IF IsInterrupt(outcome) THEN Interrupted ELSE Finished

\* the workflow_status each try block sets for the way its invoke ended
StatusAfterInvoke(outcome) ==
    IF IsInterrupt(outcome) THEN Interrupted
    ELSE IF outcome = "returned" THEN Finished
    ELSE Idle

\* the record of the invoke the script run makes
Invocation(kind, outcome) ==
    [n |-> invocation.n + 1, kind |-> kind, thread |-> thread_id,
     from |-> workflow_status, outcome |-> outcome,
     stale |-> thread_id \in checkpoints]

\* the checkpointer after an invoke: an invoke that suspends or returns has
\* saved the state of its thread
Checkpointed(outcome) ==
    IF outcome = "exception" THEN checkpoints ELSE checkpoints \cup {thread_id}

\* "Start Designing" submitted in the initial form
UIStartDesigning ==
    /\ workflow_status = Idle
    /\ workflow_status' = Running
    /\ UNCHANGED <<fnVars, wfVars, toolVars, evalVars, thread_id, uuids,
                   resume_value, request, checkpoints, invocation>>

\* the running branch: app.invoke({"initial_question": ...}, config)
UIInitialInvoke(outcome, req) ==
    /\ workflow_status = Running
    /\ invocation.n < MaxInvokes
    /\ invocation' = Invocation("initial", outcome)
    /\ checkpoints' = Checkpointed(outcome)
    /\ request' = IF IsInterrupt(outcome) THEN req ELSE "none"
    /\ workflow_status' = StatusAfterInvoke(outcome)
    /\ UNCHANGED <<fnVars, wfVars, toolVars, evalVars, thread_id, uuids,
                   resume_value>>

\* the interrupted branch with a form submitted: the form's value is stored
\* as resume_value; without tasks or with an unknown request there is no form
UISubmitForm(req, stored) ==
    /\ workflow_status = Interrupted
    /\ request = req
    /\ resume_value' = stored
    /\ workflow_status' = Resuming
    /\ UNCHANGED <<fnVars, wfVars, toolVars, evalVars, thread_id, uuids,
                   request, checkpoints, invocation>>

\* the resuming branch: app.invoke(Command(resume=resume_val), config)
UIResumeInvoke(outcome, req) ==
    /\ workflow_status = Resuming
    /\ invocation.n < MaxInvokes
    /\ invocation' = Invocation("resume", outcome)
    /\ checkpoints' = Checkpointed(outcome)
    /\ request' = IF IsInterrupt(outcome) THEN req ELSE "none"
    /\ workflow_status' = StatusAfterInvoke(outcome)
    /\ UNCHANGED <<fnVars, wfVars, toolVars, evalVars, thread_id, uuids,
                   resume_value>>

\* "Start New Interview" in the finished branch: st.session_state.clear(),
\* and the rerun sets every key anew (a new uuid4, a new app and MemorySaver)
UIStartNewInterview ==
    /\ workflow_status = Finished
    /\ uuids < MaxThreads
    /\ uuids' = uuids + 1
    /\ thread_id' = uuids + 1
    /\ checkpoints' = {}
    /\ resume_value' = NoValue
    /\ request' = "none"
    /\ workflow_status' = Idle
    /\ UNCHANGED <<fnVars, wfVars, toolVars, evalVars, invocation>>

UINext ==
    \/ UIStartDesigning
    \/ \E outcome \in InvokeOutcomes, req \in InterruptRequests :
           UIInitialInvoke(outcome, req)
    \/ \E req \in InterruptRequests : \E stored \in FormValues(req) :
           UISubmitForm(req, stored)
    \/ \E outcome \in InvokeOutcomes, req \in InterruptRequests :
           UIResumeInvoke(outcome, req)
    \/ UIStartNewInterview

UISpec == Init /\ [][UINext]_vars

-----------------------------------------------------------------------------
(* Claims about determine_next_state *)

\* C1: every call of determine_next_state with is_valid = false returns
\* should_stop = false and a non-empty next_question in which the text of
\* verification_reason occurs, whatever verification_reason, next_action
\* (also "stop") and next_input are.
C1_InvalidNeverStops ==
    (Returned("determine_next_state") /\ ~call.is_valid) =>
        /\ ret.should_stop = FALSE
        /\ ret.next_question # <<>>
        /\ Embeds(ret.next_question, PyStr(call.verification_reason))

C1_Witness ==
    /\ Returned("determine_next_state")
    /\ ~call.is_valid
    /\ call.next_action = ActStop
    /\ call.verification_reason = <<"a", "b">>
    /\ ret.next_question = RetryPrefix \o <<"a", "b">> \o RetrySuffix

\* C2: every call of determine_next_state with is_valid = true and
\* next_action = "stop" returns should_stop = true, whatever next_input and
\* verification_reason are.
C2_ValidStopStops ==
    (Returned("determine_next_state") /\ call.is_valid /\ call.next_action = ActStop) =>
        ret.should_stop = TRUE

C2_Witness ==
    /\ Returned("determine_next_state")
    /\ call.is_valid
    /\ call.next_action = ActStop
    /\ call.next_input = None
    /\ call.verification_reason = <<"a">>
    /\ ret.should_stop

\* C3: for every call of determine_next_state with is_valid = true,
\* should_stop is true exactly when next_action is "stop"; for every other
\* next_action (also absent) next_question is next_input, and the empty text
\* when next_input is absent.
C3_ValidStopIffStop ==
    (Returned("determine_next_state") /\ call.is_valid) =>
        /\ ret.should_stop = (call.next_action = ActStop)
        /\ (call.next_action # ActStop) =>
               ret.next_question =
                   (IF call.next_input = None THEN <<>> ELSE call.next_input)

C3_Witness ==
    /\ Returned("determine_next_state")
    /\ call.is_valid
    /\ call.next_action = ActContinue
    /\ call.next_input = <<"a", "b">>
    /\ ~ret.should_stop
    /\ ret.next_question = <<"a", "b">>

-----------------------------------------------------------------------------
(* Claims about the session *)

\* the cycle's verification has run and said is_valid = false
InvalidCycle == "VerifyHypotheses" \in ran /\ ~verification.is_valid

\* C4: in a cycle in which VerifyHypotheses yields is_valid = false, none of
\* GenerateSolution, CriticReview and AskUserNextSteps is executed between
\* that verification and the next GenerateHypotheses.
C4_InvalidSkipsSolution ==
    InvalidCycle =>
        ran \cap {"GenerateSolution", "CriticReview", "AskUserNextSteps"} = {}

\* an invalid second cycle, after a first one that drafted a solution, has
\* gone all the way to the decision
C4_Witness ==
    /\ InvalidCycle
    /\ cycle = 2
    /\ solution # None
    /\ "DetermineNextState" \in ran
    /\ pc = "GenerateHypotheses"

IsPrefix(s, t) == Len(s) <= Len(t) /\ SubSeq(t, 1, Len(s)) = s

\* C5: across the cycles of a session the length of the history is the sum
\* of the cycles' verdict counts, a cycle with zero verdicts adding zero
\* records (its Summarize completes), and the records already in the history
\* are unchanged by every later step.
C5_HistoryCountsVerdicts ==
    [][ /\ IsPrefix(history, history')
        /\ ("Summarize" \notin ran /\ "Summarize" \in ran') =>
               /\ status' # "failed"
               /\ Len(history') = verdict_total' ]_vars
\* C6: of the records summarize emits for a list of verdicts at most one has
\* is_the_best_hypothesis = true, and that one has is_valid = true and, when
\* a solution was generated, a non-empty solution.
C6_BestRecordUnique ==
    (Returned("summarize") /\ ~ret.raised) =>
        LET records == ret.hypotheses_history
            best == {i \in 1..Len(records) : records[i].is_the_best_hypothesis}
        IN  /\ Cardinality(best) <= 1
            /\ \A i \in best :
                   /\ records[i].is_valid
                   /\ Truthy(call.solution) => Truthy(Get(records[i], "solution"))

\* the records Summarize appended in this cycle: one per verdict
CycleRecords ==
    LET n == Len(verification.verification_details)
    IN  SubSeq(history, Len(history) - n + 1, Len(history))

\* C7: Summarize runs in every cycle, after the retry resume on the invalid
\* path and after the next-steps resume on the valid path, and before
\* DetermineNextState: no cycle ends in Summarize, and when
\* DetermineNextState is about to run every hypothesis the cycle verified
\* has its record in the history.
C7_SummarizeEveryCycle ==
    /\ "Summarize" \in ran => status # "failed"
    /\ pc = "DetermineNextState" =>
           /\ "Summarize" \in ran
           /\ Len(CycleRecords) = Len(verification.verification_details)
           /\ \A i \in 1..Len(CycleRecords) :
                  CycleRecords[i].hypothesis
                      = verification.verification_details[i].hypothesis

\* the caller's last invoke resumed AskUserNextSteps with next_action "stop"
StopResumed ==
    /\ last_resume.at = "AskUserNextSteps"
    /\ last_resume.value.next_action = ActStop

\* C8: after the stop decision SaveResults runs, and the finished session
\* holds the report text as its "SaveResults.report"; the invoke that resumes
\* AskUserNextSteps with next_action "stop" does not suspend again (nor fail)
\* and returns finished.
C8_StopSavesReport ==
    /\ [](/\ should_stop => pc \in {"SaveResults", "done"}
          /\ status = "finished" =>
                 /\ pc = "done"
                 /\ "SaveResults" \in ran
                 /\ report # None
                 /\ IsPrefix(ReportHeader, report)
          /\ StopResumed => status \in {"running", "finished"})
    /\ ((StopResumed \/ should_stop) ~> status = "finished")

\* a second cycle was stopped and its report holds the two cycles' records
C8_Witness ==
    /\ status = "finished"
    /\ StopResumed
    /\ should_stop
    /\ cycle = 2
    /\ Len(history) >= 2
    /\ report = save_results(history).report

\* C9: SaveResults is reached only in a cycle whose verification was valid
\* and whose next-steps resume carried "stop"; an invalid cycle, whichever
\* its number, goes from DetermineNextState back to GenerateHypotheses and
\* the session is not terminated.
C9_EndsOnlyByValidStop ==
    /\ pc \in {"SaveResults", "done"} =>
           /\ "VerifyHypotheses" \in ran
           /\ verification.is_valid
           /\ StopResumed
    /\ (InvalidCycle /\ "DetermineNextState" \in ran) =>
           /\ pc = "GenerateHypotheses"
           /\ status = "running"
           /\ ~should_stop
           /\ report = None

\* every cycle so far was invalid and the last one looped back
C9_Witness ==
    /\ InvalidCycle
    /\ "DetermineNextState" \in ran
    /\ cycle = MaxCycles
    /\ Len(history) >= MaxCycles
    /\ \A k \in 1..Len(history) : ~history[k].is_valid
    /\ pc = "GenerateHypotheses"

\* the session has been started and not yet resumed
FirstInvoke == status # "new" /\ last_resume = NoResume

ValidCycle == "VerifyHypotheses" \in ran /\ verification.is_valid

\* the cycle's verification has run and no resume followed it yet
VerifiedNotResumed ==
    "VerifyHypotheses" \in ran /\ last_resume.at = "AskUserVerification"

\* C11: when the run resumed with the answers ends its VerifyHypotheses with
\* is_valid = false, the workflow goes to AskUserRetry and suspends there,
\* the interrupt carrying is_valid = false; it neither finishes nor starts
\* the next cycle.
C11_InvalidSuspendsAtRetry ==
    /\ []((InvalidCycle /\ VerifiedNotResumed) =>
              /\ pc = "AskUserRetry"
              /\ status \in {"running", "suspended"}
              /\ report = None
              /\ "DetermineNextState" \notin ran
              /\ status = "suspended" => InterruptPayload.is_valid = FALSE)
    /\ ((InvalidCycle /\ VerifiedNotResumed) ~>
           (status = "suspended" /\ pc = "AskUserRetry"))

\* an invalid first cycle waits for the retry text, its reason in the payload
C11_Witness ==
    /\ InvalidCycle
    /\ VerifiedNotResumed
    /\ status = "suspended"
    /\ pc = "AskUserRetry"
    /\ cycle = 1
    /\ InterruptPayload = [is_valid |-> FALSE, reason |-> H1 \o <<": ">> \o <<"r">>]

\* C12: when VerifyHypotheses returns is_valid = true, GenerateSolution and
\* then CriticReview run and the workflow suspends at AskUserNextSteps, the
\* interrupt carrying the solution; Summarize, DetermineNextState and
\* SaveResults do not run before that suspension is resumed.
C12_ValidSuspendsAtNextSteps ==
    /\ []((ValidCycle /\ VerifiedNotResumed) =>
              /\ pc \in {"GenerateSolution", "CriticReview", "AskUserNextSteps"}
              /\ ran \cap {"Summarize", "DetermineNextState", "SaveResults"} = {}
              /\ report = None
              /\ pc = "CriticReview" => "GenerateSolution" \in ran
              /\ pc = "AskUserNextSteps" =>
                     {"GenerateSolution", "CriticReview"} \subseteq ran
              /\ status = "suspended" =>
                     /\ pc = "AskUserNextSteps"
                     /\ InterruptPayload.solution # None)
    /\ ((ValidCycle /\ VerifiedNotResumed) ~>
           (status = "suspended" /\ pc = "AskUserNextSteps"))

\* a valid first cycle waits for the next steps with its reviewed solution
C12_Witness ==
    /\ ValidCycle
    /\ VerifiedNotResumed
    /\ status = "suspended"
    /\ pc = "AskUserNextSteps"
    /\ cycle = 1
    /\ history = <<>>
    /\ ran = {"GenerateHypotheses", "AskUserVerification", "VerifyHypotheses",
              "GenerateSolution", "CriticReview", "AskUserNextSteps"}

\* C13: whenever a session is suspended the pending node is one of
\* AskUserVerification, AskUserRetry and AskUserNextSteps: never a reasoning
\* node, Summarize, DetermineNextState or SaveResults.
C13_SuspendsOnlyAtHumanNodes ==
    status = "suspended" =>
        pc \in {"AskUserVerification", "AskUserRetry", "AskUserNextSteps"}

\* each of the three points has been suspended at: the second cycle waits
\* for the retry text after a first one that waited for the next steps
C13_Witness ==
    /\ status = "suspended"
    /\ pc = "AskUserRetry"
    /\ cycle = 2
    /\ solution # None
    /\ last_resume.at = "AskUserVerification"

\* the cycle's verification produced no usable verdict
NoUsableVerdicts ==
    /\ InvalidCycle
    /\ ~TruthyRecords(verification.verification_details)

\* C15: a cycle whose verification yields no usable verdicts (is_valid =
\* false, verification_details empty or absent) does not stop the state
\* machine: its Summarize completes with an empty list of records, the
\* history staying as it was, and DetermineNextState runs towards the next
\* GenerateHypotheses; the session is in no error state.
C15_NoVerdictsStillProgresses ==
    (NoUsableVerdicts /\ "Summarize" \in ran) =>
        /\ status = "running"
        /\ failure = None
        /\ pc \in {"DetermineNextState", "GenerateHypotheses"}
        /\ Len(history) = verdict_total

-----------------------------------------------------------------------------
(* Claims about the contracts of the node functions *)

\* the call ended by raising
CallFailed == "raised" \in DOMAIN ret /\ ret.raised

\* C14: a resume value whose shape is not the one the suspended interaction
\* point expects (an object or a bare text where the verification point
\* expects a list of answers) ends in an explicit contract violation: the
\* verification that receives it fails instead of returning a verdict
\* computed as if the value were valid.
C14_ShapeMismatchFails ==
    (Returned("verify_hypotheses") /\ call.answers.type # "list") => CallFailed

\* C16: on model output that does not parse, generate_hypotheses and
\* verify_hypotheses do not raise and return their sentinel: empty lists of
\* hypotheses and questions, is_valid = false with no verdicts.
C16_MalformedYieldsSentinel ==
    (ret # Pending /\ call.fn \in {"generate_hypotheses", "verify_hypotheses"}
                   /\ call.response = Malformed) =>
        /\ ~CallFailed
        /\ call.fn = "generate_hypotheses" =>
               ret.hypotheses = <<>> /\ ret.verification_questions = <<>>
        /\ call.fn = "verify_hypotheses" =>
               ~ret.is_valid /\ ret.verification_details = <<>>

\* C17: every node function accepts a call that supplies its required
\* inputs together with keywords it does not use, and does not fail because
\* of the extra keywords.
C17_ExtraKeywordsAccepted ==
    (Returned("keyword_call")
        /\ Signatures[call.node].required \subseteq call.keywords) => ~CallFailed

-----------------------------------------------------------------------------
(* Claims about calculate_metrics *)

\* session t's call has ended, by returning or by an exception leaving it
CallEnded(t) == tpc[t] \in {"returned", "propagated"}

\* C18: calculate_metrics never propagates a failure of the script it
\* executes: whenever the execution of the script raises, the call returns
\* the text that describes the error.
C18_ScriptFailureReturnedAsText ==
    \A t \in Sessions :
        (CallEnded(t) /\ ScriptRaises(script[t])) =>
            /\ tpc[t] = "returned"
            /\ result[t] = ErrorText(FirstRaised(script[t]))

\* session u is inside a call, which reads and writes sys.stdout
InsideCall(u) == tpc[u] \in {"called", "saved", "running", "restored"}

\* the step is one of session t's
StepOf(t) == tpc'[t] # tpc[t] \/ rest'[t] # rest[t]

\* C19: concurrently running sessions share no mutable state: no step of
\* one session changes what another session's StringIO holds, nor the
\* sys.stdout another session's running call reads and writes.
C19_SessionsShareNothing ==
    [][\A t \in Sessions : \A u \in Sessions \ {t} :
           StepOf(t) =>
               /\ buffer'[u] = buffer[u]
               /\ InsideCall(u) => sys_stdout' = sys_stdout]_vars

-----------------------------------------------------------------------------
(* Claims about what verify_hypotheses computes *)

\* verify_hypotheses has returned the result it computed from a parsed response
Verified == Returned("verify_hypotheses") /\ call.response # Malformed

\* the smallest member of a non-empty set of positions
First(idx) == CHOOSE i \in idx : \A j \in idx : i <= j

\* C27: best_hypothesis is the text of the (first) verdict flagged is_best;
\* when no verdict is flagged and some verdict is valid it is the text of
\* the first valid verdict in generation order; when none is flagged and
\* none is valid it is empty.
C27_BestHypothesisSelection ==
    Verified =>
        LET fb == call.response.hypotheses_feedback
            flagged == {i \in 1..Len(fb) : fb[i].is_best}
            valid == {i \in 1..Len(fb) : fb[i].is_valid}
        IN  /\ flagged # {} => ret.best_hypothesis = fb[First(flagged)].hypothesis
            /\ (flagged = {} /\ valid # {}) =>
                   ret.best_hypothesis = fb[First(valid)].hypothesis
            /\ (flagged = {} /\ valid = {}) => ret.best_hypothesis = <<>>

\* two valid verdicts, none flagged: the first in generation order is taken
C27_Witness ==
    /\ Verified
    /\ call.response.hypotheses_feedback
           = <<Verdict(H2, TRUE, None, FALSE), Verdict(H1, TRUE, None, FALSE)>>
    /\ ret.best_hypothesis = H2

\* C28: the is_valid verify_hypotheses returns is the logical OR of the
\* verdicts' is_valid flags: true iff at least one verdict is valid, false
\* for an empty list of verdicts.
C28_GlobalValidityIsOr ==
    Verified =>
        LET fb == call.response.hypotheses_feedback
        IN  /\ ret.is_valid = (\E i \in 1..Len(fb) : fb[i].is_valid = TRUE)
            /\ fb = <<>> => ret.is_valid = FALSE

\* one verdict of two is valid
C28_Witness ==
    /\ Verified
    /\ call.response.hypotheses_feedback
           = <<Verdict(H1, FALSE, <<"r">>, FALSE), Verdict(H2, TRUE, None, TRUE)>>
    /\ ret.is_valid

\* "hypothesis: reason" of the verdicts that supply a reason, joined by "; "
RECURSIVE ReasonsInOrder(_)
ReasonsInOrder(fb) ==
    IF fb = <<>> THEN <<>>
    ELSE LET h == Head(fb)
             later == ReasonsInOrder(Tail(fb))
         IN  IF h.reason = None \/ h.reason = <<>>
             THEN later
             ELSE h.hypothesis \o <<": ">> \o h.reason
                      \o (IF later = <<>> THEN <<>> ELSE <<"; ">> \o later)

\* C29: when no verdict is valid, verification_reason is the "; "-joined
\* "hypothesis: reason" of the verdicts that supply a reason, in generation
\* order, and the fixed fallback text when none supplies one; when some
\* verdict is valid it is empty.  So it is non-empty exactly when is_valid is
\* false.
C29_ReasonAggregation ==
    Verified =>
        LET fb == call.response.hypotheses_feedback
            none_valid == \A i \in 1..Len(fb) : ~fb[i].is_valid
        IN  /\ (none_valid /\ ReasonsInOrder(fb) # <<>>) =>
                   ret.verification_reason = ReasonsInOrder(fb)
            /\ (none_valid /\ ReasonsInOrder(fb) = <<>>) =>
                   ret.verification_reason = <<"No valid hypotheses found.">>
            /\ ~none_valid => ret.verification_reason = <<>>
            /\ (ret.verification_reason # <<>>) = ~ret.is_valid

\* two invalid verdicts with reasons
C29_Witness ==
    /\ Verified
    /\ call.response.hypotheses_feedback
           = <<Verdict(H2, FALSE, <<"r">>, FALSE), Verdict(H1, FALSE, <<"r">>, TRUE)>>
    /\ ret.verification_reason = <<"H2", ": ", "r", "; ", "H1", ": ", "r">>

-----------------------------------------------------------------------------
(* Claims about the records and the report *)

ShownPairs(text) ==
    LET IsQ(i) == text[i] = "- **Q:** "
        at == SelectSeq([i \in 1..Len(text) |-> i], IsQ)
    IN  [k \in 1..Len(at) |->
            <<text[at[k] + 1], text[at[k] + 3], text[at[k] + 4]>>]

\* the number of "  **A:** " lines of a report
ShownAnswers(text) == Cardinality({i \in 1..Len(text) : text[i] = "  **A:** "})

\* the i-th question with the i-th answer, up to the shorter list, record
\* after record
RECURSIVE PairsInOrder(_)
PairsInOrder(hist) ==
    IF hist = <<>> THEN <<>>
    ELSE LET qs == Head(hist).verification_questions
             ans == Head(hist).verification_answers
             n == IF Len(qs) <= Len(ans) THEN Len(qs) ELSE Len(ans)
         IN  [k \in 1..n |-> <<qs[k][1], "  **A:** ", ans[k][1]>>]
                 \o PairsInOrder(Tail(hist))

\* C21: for every record the report's verification section pairs the i-th
\* question with the i-th answer, in order, for i up to the shorter of the
\* two lists; with fewer answers than questions, also with no answers at
\* all, the rendering stops at the shorter length and does not fail.
C21_QuestionsPairedWithAnswers ==
    (Returned("save_results") /\ call.given \in ShownHistories) =>
        /\ DOMAIN ret = {"report"}
        /\ ShownPairs(ret.report) = PairsInOrder(call.given)
        /\ ShownAnswers(ret.report) = Len(PairsInOrder(call.given))

\* a cycle with two questions and two answers, then one with two questions
\* and one answer
C21_Witness ==
    /\ Returned("save_results")
    /\ call.given \in ShownHistories
    /\ Len(call.given) = 2
    /\ call.given[1].verification_answers = << <<"A1">>, <<"A2">> >>
    /\ call.given[2].verification_answers = << <<"A1">> >>
    /\ call.given[2].verification_questions = << <<"Q1">>, <<"Q2">> >>
    /\ ShownPairs(ret.report)
           = << <<"Q1", "  **A:** ", "A1">>, <<"Q2", "  **A:** ", "A2">>,
                <<"Q1", "  **A:** ", "A1">> >>

\* C23: save_results does not fail on an empty or missing (None) history:
\* it returns, under the key report, a report that is the header only.
C23_EmptyHistoryHeaderOnly ==
    (Returned("save_results") /\ (call.given = <<>> \/ call.given = NoRecords)) =>
        /\ DOMAIN ret = {"report"}
        /\ ret.report = <<"# System Design Interview Report">>

\* the missing history has been rendered
C23_Witness ==
    /\ Returned("save_results")
    /\ call.given = NoRecords
    /\ call.first = None
    /\ ret.report = ReportHeader

-----------------------------------------------------------------------------
(* Claims about the session's report, its interaction points and its retry *)

\* the report has a section for hypothesis h whose status line is "Valid"
NamedValid(text, h) ==
    \E i \in 1..(Len(text) - 1) :
        /\ text[i] = "**Hypothesis:** "
        /\ text[i + 1] = h[1]
        /\ LET status_at == {j \in (i + 1)..Len(text) :
                                text[j] \in {"**Status:** Valid", "**Status:** Invalid"}}
           IN  status_at # {} /\ text[First(status_at)] = "**Status:** Valid"

\* C22: a session that ends by next_action = "stop" after a cycle whose
\* verification was valid with best hypothesis H has, in its final state, a
\* report with a section that names H and shows "Status: Valid".
C22_ReportNamesBestAsValid ==
    (status = "finished" /\ StopResumed /\ verification.is_valid) =>
        /\ report # None
        /\ NamedValid(report, verification.best_hypothesis)

\* a step in which a human-interaction node is executed: the run suspends
HumanNodeRuns == status = "running" /\ status' = "suspended"

RetriedCycle == last_resume.at = "AskUserRetry" /\ ran = {"GenerateHypotheses"}

\* C25: the free text the retry suspension is resumed with is the guidance
\* of the next cycle: the question the next GenerateHypotheses works on is
\* made from it.
C25_RetryTextGuidesNextCycle ==
    RetriedCycle => Embeds(gh_question, last_resume.value)

-----------------------------------------------------------------------------
(* Claims about the evaluation harness *)

\* the harness has executed its whole script for the task
EvalCompleted == eval_state = "done"

\* how often a call occurs among the calls made
Times(step) == Cardinality({i \in 1..Len(eval_trace) : eval_trace[i] = step})

\* the invokes among the calls made, in order
RECURSIVE InvokesOf(_)
InvokesOf(tr) ==
    IF tr = <<>> THEN <<>>
    ELSE IF tr[1] \in {"invoke", "resume_answers", "resume_continue", "resume_stop"}
         THEN <<tr[1]>> \o InvokesOf(Tail(tr))
         ELSE InvokesOf(Tail(tr))

\* C26: once run_evaluation_loop has started on a task it goes through all
\* five invokes in the order initial invoke, resume with answers, resume
\* with continue and the challenge, resume with the phase-2 answers, resume
\* with stop; it has then answered verification questions twice, generated
\* one challenge and scored once, and the text it scored is the report
\* SaveResults stored in the final state.
C26_HarnessScoresSavedReport ==
    /\ eval_state # "crashed"
    /\ IsPrefix(eval_trace, EvalScript)
    /\ EvalCompleted =>
         /\ InvokesOf(eval_trace) =
                <<"invoke", "resume_answers", "resume_continue",
                  "resume_answers", "resume_stop">>
         /\ Times("answer_verification") = 2
         /\ Times("generate_challenge") = 1
         /\ Times("score_report") = 1
         /\ status = "finished"
         /\ final_report = report

-----------------------------------------------------------------------------
(* Claims about the sections of the report *)

\* where the sections of a report begin
SectionStarts(text) ==
    SelectSeq([i \in 1..Len(text) |-> i], LAMBDA i : text[i] = "### Hypothesis ")

\* the k-th section: from its heading to the token before the next heading
Section(text, k) ==
    LET at == SectionStarts(text)
    IN  SubSeq(text, at[k], IF k < Len(at) THEN at[k + 1] - 1 ELSE Len(text))

\* how many times a line beginning occurs in a section
Count(sec, token) == Cardinality({i \in 1..Len(sec) : sec[i] = token})

\* the section shows the value right after the label
Shows(sec, label, value) ==
    \E i \in 1..Len(sec) :
        sec[i] = label /\ SubSeq(sec, i + 1, i + Len(value)) = value

\* a history of records has been rendered
Rendered == Returned("save_results") /\ call.given # NoRecords

\* C31: the report has exactly one section per history record, in history
\* order; section k is numbered k, shows record k's question and hypothesis
\* and exactly one status line, Valid or Invalid as the record is; the
\* invalid-reason line is there iff the status is Invalid.
C31_OneSectionPerRecord ==
    Rendered =>
        /\ Len(SectionStarts(ret.report)) = Len(call.given)
        /\ \A k \in 1..Len(call.given) :
              LET sec == Section(ret.report, k)
                  record == call.given[k]
                  valid == Count(sec, "**Status:** Valid")
                  invalid == Count(sec, "**Status:** Invalid")
              IN  /\ SubSeq(sec, 1, 2) = <<"### Hypothesis ", ToString(k)>>
                  /\ Shows(sec, "**Question:** ", PyStr(record.current_question))
                  /\ Shows(sec, "**Hypothesis:** ", PyStr(record.hypothesis))
                  /\ Count(sec, "**Question:** ") = 1
                  /\ Count(sec, "**Hypothesis:** ") = 1
                  /\ valid + invalid = 1
                  /\ (valid = 1) <=> record.is_valid
                  /\ Count(sec, "**Invalid Reason:** ") = invalid

\* a history of two cycles, four records, the second and fourth valid
C31_Witness ==
    /\ Rendered
    /\ Len(call.given) = 4
    /\ [k \in 1..4 |-> call.given[k].is_valid] = <<FALSE, TRUE, FALSE, TRUE>>
    /\ Len(SectionStarts(ret.report)) = 4
    /\ Shows(Section(ret.report, 4), "### Hypothesis ", <<"4">>)
    /\ Shows(Section(ret.report, 4), "**Hypothesis:** ", H2)
    /\ Count(Section(ret.report, 3), "**Invalid Reason:** ") = 1

\* the record is valid, is the best hypothesis and has a solution
SelectedWithSolution(record) ==
    /\ record.is_valid
    /\ record.is_the_best_hypothesis
    /\ "solution" \in DOMAIN record
    /\ Truthy(record.solution)

\* C32: a record's section holds a solution body only if the record is
\* valid, is the best hypothesis and has a solution; the section of an
\* invalid record and the section of a record that is not the best hold none.
C32_SolutionOnlyForValidBest ==
    Rendered =>
        \A k \in 1..Len(call.given) :
            LET sec == Section(ret.report, k)
                record == call.given[k]
            IN  /\ Count(sec, "\n#### Solution") > 0 => SelectedWithSolution(record)
                /\ SelectedWithSolution(record) =>
                       Shows(sec, "\n#### Solution", <<"\n">> \o record.solution)

\* an invalid record that is flagged best and holds a solution is rendered
\* without it
C32_Witness ==
    /\ Rendered
    /\ Len(call.given) = 1
    /\ ~call.given[1].is_valid
    /\ call.given[1].is_the_best_hypothesis
    /\ "solution" \in DOMAIN call.given[1]
    /\ Count(ret.report, "\n#### Solution") = 0
    /\ Count(ret.report, "**Status:** Invalid") = 1

-----------------------------------------------------------------------------
(* Claims about the question a cycle works on *)

\* a valid cycle has been continued (not stopped) with an empty new_input
\* and DetermineNextState has sent the session back to GenerateHypotheses
ContinuedWithoutInput ==
    /\ status = "running"
    /\ pc = "GenerateHypotheses"
    /\ cycle >= 1
    /\ verification.is_valid
    /\ last_resume.at = "AskUserNextSteps"
    /\ last_resume.value.next_action # ActStop
    /\ ~Truthy(last_resume.value.new_input)

\* "question = current_question or initial": the question the next
\* GenerateHypotheses will work on
UpcomingQuestion == PyOr(current_question, initial)

\* C33: when the human continues with an empty new_input after a valid
\* cycle, the next cycle works on the question of the cycle just finished;
\* the initial request is the question only while no cycle has had a
\* current question of its own.
C33_EmptyInputKeepsQuestion ==
    ContinuedWithoutInput =>
        /\ UpcomingQuestion = gh_question
        /\ (UpcomingQuestion = initial => gh_question = initial)

-----------------------------------------------------------------------------
(* Claims about the best hypothesis of a cycle *)

\* Summarize has just run in a cycle whose verification was valid and for
\* which a solution was generated
SolvedCycleSummarized ==
    /\ status = "running"
    /\ pc = "DetermineNextState"
    /\ verification.is_valid
    /\ Truthy(solution)

\* the records of the cycle that are marked as the best hypothesis
BestOfCycle ==
    {i \in 1..Len(CycleRecords) : CycleRecords[i].is_the_best_hypothesis}

\* C34: in a cycle where verify_hypotheses returned is_valid = true with
\* best_hypothesis B and a solution was generated, summarize emits exactly
\* one record with is_the_best_hypothesis = true; its hypothesis is B and it
\* carries the solution, also when B is the first valid verdict because no
\* verdict was flagged is_best.
C34_BestRecordMatchesVerification ==
    SolvedCycleSummarized =>
        /\ Cardinality(BestOfCycle) = 1
        /\ \A i \in BestOfCycle :
              /\ CycleRecords[i].hypothesis = verification.best_hypothesis
              /\ Get(CycleRecords[i], "solution") = solution

\* C35: the best_hypothesis verify_hypotheses returns is non-empty only if
\* the is_valid it returns is true, and a non-empty best_hypothesis is the
\* text of a verdict whose own is_valid is true.
C35_BestHypothesisIsValid ==
    (Verified /\ ret.best_hypothesis # <<>>) =>
        /\ ret.is_valid
        /\ \E i \in 1..Len(call.response.hypotheses_feedback) :
              /\ call.response.hypotheses_feedback[i].hypothesis = ret.best_hypothesis
              /\ call.response.hypotheses_feedback[i].is_valid

-----------------------------------------------------------------------------
(* Claims about the standard output around calculate_metrics *)

\* session t's call is over and no other session has called the tool, so
\* nothing but this call has touched sys.stdout
OnlyCallEnded(t) ==
    /\ CallEnded(t)
    /\ \A u \in Sessions \ {t} : tpc[u] = "idle"

\* C36: after a call of calculate_metrics the process-wide sys.stdout is the
\* stream it was before the call, when the script ran to its end and when
\* its execution raised alike: a failed script leaves no redirection behind
\* for later calls.
C36_StdoutRestoredAfterCall ==
    \A t \in Sessions :
        OnlyCallEnded(t) =>
            /\ sys_stdout = old_stdout[t]
            /\ sys_stdout = Console

-----------------------------------------------------------------------------
(* Claims about what the evaluation harness resumes with *)

\* the interaction point whose payload shape a resume of the harness has: a
\* list of answers for AskUserVerification, a next-steps object for
\* AskUserNextSteps
PointOfPayload(step) ==
    IF step = "resume_answers" THEN "AskUserVerification" ELSE "AskUserNextSteps"

\* the harness has resumed the session at least once
HarnessResumed == Len(InvokesOf(eval_trace)) >= 2

\* the last resume the harness sent
LastResumeSent == InvokesOf(eval_trace)[Len(InvokesOf(eval_trace))]

\* C37: the harness resumes a suspended session only with a payload of the
\* shape of the interaction point the session is suspended at, whatever the
\* verification verdicts were: no next-steps object and no list of answers
\* reaches AskUserRetry, and the final stop reaches only AskUserNextSteps.
C37_ResumeMatchesInteractionPoint ==
    HarnessResumed =>
        /\ last_resume.at = PointOfPayload(LastResumeSent)
        /\ last_resume.at # "AskUserRetry"

-----------------------------------------------------------------------------
(* Claims about the Streamlit page *)

\* the script run just made an invoke
Invoked == invocation' # invocation

\* C38: workflow_status is always one of idle, running, interrupted,
\* resuming, finished; the workflow is resumed only in status resuming;
\* resuming is entered only from interrupted, by a form submission that
\* stores resume_value; an invoke leads to interrupted when an interrupt is
\* returned or raised, to finished when it returns without one, and to idle
\* when any other exception occurs.
C38_UIStatusMachine ==
    /\ workflow_status = Idle
    /\ [][ /\ workflow_status' \in {Idle, Running, Interrupted, Resuming, Finished}
           /\ (Invoked /\ invocation'.kind = "resume") => workflow_status = Resuming
           /\ (Invoked /\ invocation'.kind = "initial") => workflow_status = Running
           /\ (workflow_status' = Resuming /\ workflow_status # Resuming) =>
                  /\ workflow_status = Interrupted
                  /\ resume_value'.form = FormOf(request)
                  /\ resume_value'.form # "none"
                  /\ ~Invoked
           /\ Invoked =>
                  /\ invocation'.outcome \in {"interrupt_returned", "interrupt_raised"}
                         => workflow_status' = Interrupted
                  /\ invocation'.outcome = "returned" => workflow_status' = Finished
                  /\ invocation'.outcome = "exception" => workflow_status' = Idle
         ]_vars

\* a resume, made in status resuming after the retry form was submitted,
\* ended in an exception and the page is back at idle
C38_Witness ==
    /\ invocation.kind = "resume"
    /\ invocation.from = Resuming
    /\ invocation.outcome = "exception"
    /\ resume_value.form = "retry_form"
    /\ workflow_status = Idle

\* C39: every initial invoke the page makes runs on a thread_id of which the
\* checkpointer holds no state of an earlier run: after the page has gone
\* back to idle, by an error or by Start New Interview, the next start has
\* a fresh thread_id.
C39_InitialInvokeOnFreshThread ==
    invocation.kind = "initial" => ~invocation.stale

====
